---- MODULE Spec2Model ----
(***************************************************************************)
(* Model of backend/main.py: the code-review service.                      *)
(*                                                                         *)
(* Text (the model's reply, the uploaded code, the JSON kept in the        *)
(* store) is a sequence of tokens.  A token is a TLA+ string standing for  *)
(* one character or one run of characters that no operation of the         *)
(* program splits: the structural characters of JSON, the double quote,    *)
(* the blank, the line break, the triple backtick, and words and number    *)
(* literals.  Texts are canonical: no two number literals are adjacent     *)
(* (as characters they would read as one number).                          *)
(*                                                                         *)
(* A Python value is a record [t |-> kind, v |-> payload]:                 *)
(*   null, bool (TRUE/FALSE), int (an integer), float (its literal),       *)
(*   str (its tokens), list (a sequence of values),                        *)
(*   dict (the sequence of its <<key, value>> pairs in insertion order,     *)
(*   keys being token sequences, no key twice).                            *)
(***************************************************************************)
EXTENDS Integers, Sequences, FiniteSets, TLC

\* ------------------------------------------------------------------ tokens

Q == "\""
NL == "\n"
SP == " "
\* The triple backtick and the apostrophe (tokens named, not spelled: the two
\* characters do not lex inside a TLA+ string).
BT == "<bt3>"
APOS == "<apos>"

Whitespace == {SP, NL}

\* The number literals of the model and the integers json reads them as.
IntTokens == {"0", "1", "3", "5", "7", "10", "99", "-3"}
FloatTokens == {"7.5"}
NumberTokens == IntTokens \cup FloatTokens

IntOf(tok) ==
  CASE tok = "0" -> 0 [] tok = "1" -> 1 [] tok = "3" -> 3 [] tok = "5" -> 5
    [] tok = "7" -> 7 [] tok = "10" -> 10 [] tok = "99" -> 99 [] tok = "-3" -> 0 - 3

\* The decimal literal of an integer.
TokOfInt(n) == ToString(n)

\* ------------------------------------------------------------ Python values

PyNone == [t |-> "null", v |-> <<>>]
PyBool(b) == [t |-> "bool", v |-> b]
PyInt(n) == [t |-> "int", v |-> n]
PyFloat(tok) == [t |-> "float", v |-> tok]
PyStr(toks) == [t |-> "str", v |-> toks]
PyList(items) == [t |-> "list", v |-> items]
PyDict(fn) == [t |-> "dict", v |-> fn]

EmptyDict == PyDict(<<>>)

IsDict(x) == x.t = "dict"
IsList(x) == x.t = "list"
IsStr(x) == x.t = "str"

\* The keys of a dict.
Keys(d) == {d.v[i][1] : i \in 1..Len(d.v)}

\* key in d
DictHas(d, key) == key \in Keys(d)

\* d[key], for a key of d
DictItem(d, key) == d.v[CHOOSE i \in 1..Len(d.v) : d.v[i][1] = key][2]

\* d.get(key, default)
DictGet(d, key, default) == IF DictHas(d, key) THEN DictItem(d, key) ELSE default

\* d[key] = val: a key of d keeps its place, a new key goes last.
DictSet(d, key, val) ==
  IF DictHas(d, key)
    THEN PyDict([i \in 1..Len(d.v) |-> IF d.v[i][1] = key THEN <<key, val>> ELSE d.v[i]])
    ELSE PyDict(Append(d.v, <<key, val>>))

\* -------------------------------------------------------- str operations

\* s.strip(): leading and trailing whitespace removed.
RECURSIVE LStrip(_)
LStrip(s) ==
  IF s /= <<>> /\ Head(s) \in Whitespace THEN LStrip(Tail(s)) ELSE s

RECURSIVE RStrip(_)
RStrip(s) ==
  IF s /= <<>> /\ s[Len(s)] \in Whitespace
    THEN RStrip(SubSeq(s, 1, Len(s) - 1))
    ELSE s

Strip(s) == RStrip(LStrip(s))

\* s.startswith(p)
StartsWith(s, p) == Len(s) >= Len(p) /\ SubSeq(s, 1, Len(p)) = p

\* s.find(tok): the 0-based index of the first occurrence, or -1.
Find(s, tok) ==
  IF \E i \in 1..Len(s) : s[i] = tok
    THEN (CHOOSE i \in 1..Len(s) : s[i] = tok /\ \A j \in 1..(i - 1) : s[j] /= tok) - 1
    ELSE 0 - 1

\* s.rfind(tok): the 0-based index of the last occurrence, or -1.
RFind(s, tok) ==
  IF \E i \in 1..Len(s) : s[i] = tok
    THEN (CHOOSE i \in 1..Len(s) : s[i] = tok /\ \A j \in (i + 1)..Len(s) : s[j] /= tok) - 1
    ELSE 0 - 1

\* s[start:end] for 0 <= start and 0 <= end <= len(s); empty when end <= start.
Slice(s, start, end) == SubSeq(s, start + 1, end)

\* s.split(sep): the pieces between the occurrences of the token sep.
RECURSIVE Split(_, _)
Split(s, sep) ==
  LET i == Find(s, sep)
  IN IF i = 0 - 1
       THEN <<s>>
       ELSE <<SubSeq(s, 1, i)>> \o Split(SubSeq(s, i + 2, Len(s)), sep)

\* sep.join(pieces)
RECURSIVE Join(_, _)
Join(pieces, sep) ==
  IF pieces = <<>> THEN <<>>
  ELSE IF Len(pieces) = 1 THEN pieces[1]
  ELSE pieces[1] \o <<sep>> \o Join(Tail(pieces), sep)

\* Whether pat occurs in s at the 1-based position i.
MatchAt(s, pat, i) == i + Len(pat) - 1 <= Len(s) /\ SubSeq(s, i, i + Len(pat) - 1) = pat

\* s.replace(pat, ''): every occurrence of pat, found left to right without
\* overlap, removed.
RECURSIVE Replace(_, _)
Replace(s, pat) ==
  IF \E i \in 1..Len(s) : MatchAt(s, pat, i)
    THEN LET i == CHOOSE i \in 1..Len(s) :
                    MatchAt(s, pat, i) /\ \A j \in 1..(i - 1) : ~MatchAt(s, pat, j)
         IN SubSeq(s, 1, i - 1) \o Replace(SubSeq(s, i + Len(pat), Len(s)), pat)
    ELSE s

\* ------------------------------------------------------------- json.loads

\* A scan's outcome: ok, the value read and the 1-based position after it;
\* not ok is json.JSONDecodeError.
Scanned(val, pos) == [ok |-> TRUE, val |-> val, pos |-> pos]
DecodeError == [ok |-> FALSE, val |-> PyNone, pos |-> 0]

\* The first position from i on that holds no whitespace.
RECURSIVE SkipWs(_, _)
SkipWs(s, i) ==
  IF i <= Len(s) /\ s[i] \in Whitespace THEN SkipWs(s, i + 1) ELSE i

\* The content of a string; a line break in it is an invalid control character.
StringBody(body, next) ==
  IF \E k \in 1..Len(body) : body[k] = NL THEN DecodeError ELSE Scanned(PyStr(body), next)

\* The string whose content starts at i and whose closing quote is r tokens
\* further (r = -1: there is none).
StringTo(s, i, r) ==
  IF r = 0 - 1 THEN DecodeError
  ELSE StringBody(SubSeq(s, i, i + r - 1), i + r + 1)

\* A string whose opening quote is at i - 1: its content runs to the next
\* quote.
ScanString(s, i) == StringTo(s, i, Find(SubSeq(s, i, Len(s)), Q))

RECURSIVE ScanOnce(_, _)
RECURSIVE ObjectPairs(_, _, _)
RECURSIVE ArrayItems(_, _, _)

\* After a pair, read to position e, of the object d so far: "}" ends the
\* object, "," is followed by the next pair.
AfterPair(s, e, d) ==
  IF e > Len(s) THEN DecodeError
  ELSE IF s[e] = "}" THEN Scanned(d, e + 1)
  ELSE IF s[e] = "," THEN ObjectPairs(s, SkipWs(s, e + 1), d)
  ELSE DecodeError

\* After a pair's value.
AfterPairValue(s, key, val, acc) ==
  IF ~val.ok THEN DecodeError
  ELSE AfterPair(s, SkipWs(s, val.pos), DictSet(acc, key, val.val))

\* After a pair's key, read to position c: ":" and the value.
AfterKey(s, key, c, acc) ==
  IF c > Len(s) \/ s[c] /= ":" THEN DecodeError
  ELSE AfterPairValue(s, key, ScanOnce(s, SkipWs(s, c + 1)), acc)

PairFromKey(s, key, acc) ==
  IF ~key.ok THEN DecodeError
  ELSE AfterKey(s, key.val.v, SkipWs(s, key.pos), acc)

\* The pairs of an object, from the quote that opens a key at position k,
\* added to acc.
ObjectPairs(s, k, acc) ==
  IF k > Len(s) \/ s[k] /= Q THEN DecodeError
  ELSE PairFromKey(s, ScanString(s, k + 1), acc)

\* An object whose "{" is at k - 1 or before k, only whitespace between.
ObjectFrom(s, k) ==
  IF k <= Len(s) /\ s[k] = "}"
    THEN Scanned(EmptyDict, k + 1)
    ELSE ObjectPairs(s, k, EmptyDict)

\* An object whose "{" is at i - 1.
JSONObject(s, i) == ObjectFrom(s, SkipWs(s, i))

\* After an item, read to position e, of the items so far: "]" ends the
\* array, "," is followed by the next item.
AfterItem(s, e, items) ==
  IF e > Len(s) THEN DecodeError
  ELSE IF s[e] = "]" THEN Scanned(PyList(items), e + 1)
  ELSE IF s[e] = "," THEN ArrayItems(s, SkipWs(s, e + 1), items)
  ELSE DecodeError

AfterItemValue(s, val, acc) ==
  IF ~val.ok THEN DecodeError
  ELSE AfterItem(s, SkipWs(s, val.pos), Append(acc, val.val))

\* The items of an array, from the start of an item at position k, added to
\* acc.
ArrayItems(s, k, acc) == AfterItemValue(s, ScanOnce(s, k), acc)

ArrayFrom(s, k) ==
  IF k <= Len(s) /\ s[k] = "]"
    THEN Scanned(PyList(<<>>), k + 1)
    ELSE ArrayItems(s, k, <<>>)

\* An array whose "[" is at i - 1.
JSONArray(s, i) == ArrayFrom(s, SkipWs(s, i))

\* The value whose first token c is at position i.
ScanValue(s, i, c) ==
  CASE c = Q -> ScanString(s, i + 1)
    [] c = "{" -> JSONObject(s, i + 1)
    [] c = "[" -> JSONArray(s, i + 1)
    [] c = "null" -> Scanned(PyNone, i + 1)
    [] c = "true" -> Scanned(PyBool(TRUE), i + 1)
    [] c = "false" -> Scanned(PyBool(FALSE), i + 1)
    [] c \in IntTokens -> Scanned(PyInt(IntOf(c)), i + 1)
    [] c \in FloatTokens -> Scanned(PyFloat(c), i + 1)
    [] OTHER -> DecodeError

\* The value that starts at position i.
ScanOnce(s, i) == IF i > Len(s) THEN DecodeError ELSE ScanValue(s, i, s[i])

\* One value read, nothing but whitespace may follow it.
WholeText(s, r) == IF r.ok /\ SkipWs(s, r.pos) > Len(s) THEN r ELSE DecodeError

\* json.loads(s): one value, whitespace around it, and nothing after it.
Loads(s) == WholeText(s, ScanOnce(s, SkipWs(s, 1)))

\* ------------------------------------------------------------- json.dumps

RECURSIVE Dumps(_)
RECURSIVE DumpsItems(_)
RECURSIVE DumpsPairs(_)

\* The items of a list, ", " between them.
DumpsItems(items) ==
  IF items = <<>> THEN <<>>
  ELSE IF Len(items) = 1 THEN Dumps(items[1])
  ELSE Dumps(items[1]) \o <<",", SP>> \o DumpsItems(Tail(items))

\* The pairs of a dict as "key": value, ", " between them.
DumpsPairs(pairs) ==
  LET one == <<Q>> \o pairs[1][1] \o <<Q, ":", SP>> \o Dumps(pairs[1][2])
  IN IF Len(pairs) = 1 THEN one
     ELSE one \o <<",", SP>> \o DumpsPairs(Tail(pairs))

\* json.dumps(x) with the default separators, for a value whose strings hold
\* no quote, backslash or control character (none needs an escape).
Dumps(x) ==
  CASE x.t = "null" -> <<"null">>
    [] x.t = "bool" -> IF x.v THEN <<"true">> ELSE <<"false">>
    [] x.t = "int" -> <<TokOfInt(x.v)>>
    [] x.t = "float" -> <<x.v>>
    [] x.t = "str" -> <<Q>> \o x.v \o <<Q>>
    [] x.t = "list" -> <<"[">> \o DumpsItems(x.v) \o <<"]">>
    [] x.t = "dict" ->
         IF x.v = <<>> THEN <<"{", "}">> ELSE <<"{">> \o DumpsPairs(x.v) \o <<"}">>

\* ------------------------------------------------------------ str and repr

RECURSIVE Repr(_)
RECURSIVE ReprItems(_)
RECURSIVE ReprPairs(_)

ReprItems(items) ==
  IF items = <<>> THEN <<>>
  ELSE IF Len(items) = 1 THEN Repr(items[1])
  ELSE Repr(items[1]) \o <<",", SP>> \o ReprItems(Tail(items))

ReprPairs(pairs) ==
  LET one == <<APOS>> \o pairs[1][1] \o <<APOS, ":", SP>> \o Repr(pairs[1][2])
  IN IF Len(pairs) = 1 THEN one
     ELSE one \o <<",", SP>> \o ReprPairs(Tail(pairs))

\* repr(x): a string in apostrophes (it holds none itself), None, True and
\* False spelled as Python spells them.
Repr(x) ==
  CASE x.t = "null" -> <<"None">>
    [] x.t = "bool" -> IF x.v THEN <<"True">> ELSE <<"False">>
    [] x.t = "int" -> <<TokOfInt(x.v)>>
    [] x.t = "float" -> <<x.v>>
    [] x.t = "str" -> <<APOS>> \o x.v \o <<APOS>>
    [] x.t = "list" -> <<"[">> \o ReprItems(x.v) \o <<"]">>
    [] x.t = "dict" ->
         IF x.v = <<>> THEN <<"{", "}">> ELSE <<"{">> \o ReprPairs(x.v) \o <<"}">>

\* str(x): the string itself for a str, repr(x) for everything else.
StrOf(x) == IF x.t = "str" THEN x.v ELSE Repr(x)

\* --------------------------------------------------- analyze_code_with_llm

K(word) == <<word>>
S(word) == PyStr(<<word>>)

FallbackSummary == PyStr(<<"Could", SP, "not", SP, "parse", SP, "Gemini", SP, "output.">>)

\* x or default: x unless it is None or the empty string.
OrElse(x, default) == IF x.t = "null" \/ (x.t = "str" /\ x.v = <<>>) THEN default ELSE x

\* Lines 196-198, for a reply that starts with the triple backtick: without
\* its first and last line when it has more than two lines, then without
\* every "```json" and every "```" left in it, then without the whitespace
\* around it.
FenceBody(text, lines) ==
  Strip(Replace(Replace(IF Len(lines) > 2
                          THEN Join(SubSeq(lines, 2, Len(lines) - 1), NL)
                          ELSE text,
                        <<BT, "json">>),
                <<BT>>))

\* Lines 195-198.
StripFences(text) ==
  IF StartsWith(text, <<BT>>) THEN FenceBody(text, Split(text, NL)) ELSE text

\* Line 202.
JsonStr(text, start, end) ==
  IF start /= 0 - 1 THEN Slice(text, start, end) ELSE <<"{", "}">>

\* Lines 201-202: from the first "{" to the last "}", or "{}" without a "{".
ExtractJson(text) == JsonStr(text, Find(text, "{"), RFind(text, "}") + 1)

\* Lines 209-212: every item that is not a dict becomes a suggestion of type
\* general whose description is str(item).
CoerceSuggestion(s) ==
  IF IsDict(s) THEN s
  ELSE PyDict(<< <<K("type"), S("general")>>, <<K("description"), PyStr(StrOf(s))>> >>)

\* Lines 217-220: every item that is not a dict becomes an issue of severity
\* medium whose description is str(item).
CoerceIssue(i) ==
  IF IsDict(i) THEN i
  ELSE PyDict(<< <<K("severity"), S("medium")>>, <<K("description"), PyStr(StrOf(i))>> >>)

\* A faulty variant of MapSuggestions, which C5 must tell from it: an item
\* that is neither a dict nor a string is left out.
MapSuggestionsDropping(l) ==
  [n \in 1..Len(SelectSeq(l, LAMBDA s : IsDict(s) \/ IsStr(s))) |->
     CoerceSuggestion(SelectSeq(l, LAMBDA s : IsDict(s) \/ IsStr(s))[n])]

\* Lines 209-212: the list comprehension.
MapSuggestions(l) == [n \in 1..Len(l) |-> CoerceSuggestion(l[n])]

\* A faulty variant of MapIssues, which C4 must tell from it: the issues
\* come out in the reverse order.
MapIssuesReversed(l) == [n \in 1..Len(l) |-> CoerceIssue(l[Len(l) + 1 - n])]

\* Lines 217-220: the list comprehension.
MapIssues(l) == [n \in 1..Len(l) |-> CoerceIssue(l[n])]

\* Lines 208-214.
CoerceSuggestions(result) ==
  IF DictHas(result, K("suggestions")) /\ IsList(DictItem(result, K("suggestions")))
    THEN DictSet(result, K("suggestions"),
                 PyList(MapSuggestions(DictItem(result, K("suggestions")).v)))
    ELSE DictSet(result, K("suggestions"), PyList(<<>>))

\* Lines 216-222.
CoerceIssues(result) ==
  IF DictHas(result, K("issues")) /\ IsList(DictItem(result, K("issues")))
    THEN DictSet(result, K("issues"), PyList(MapIssues(DictItem(result, K("issues")).v)))
    ELSE DictSet(result, K("issues"), PyList(<<>>))

\* Lines 229-237: what a reply that json cannot decode is answered with.
FallbackRecord(language) ==
  PyDict(<< <<K("language"), OrElse(language, S("Unknown"))>>,
            <<K("review_summary"), FallbackSummary>>,
            <<K("readability_score"), PyInt(5)>>,
            <<K("modularity_score"), PyInt(5)>>,
            <<K("bug_risk_score"), PyInt(5)>>,
            <<K("suggestions"), PyList(<<>>)>>,
            <<K("issues"), PyList(<<>>)>> >>)

\* Lines 204-237: the decoded object with its two lists coerced, or the
\* fallback when json could not decode.  The slice json decodes starts with
\* "{", so what it decodes to is a dict.
Analysis(parsed, language) ==
  IF parsed.ok
    THEN CoerceIssues(CoerceSuggestions(parsed.val))
    ELSE FallbackRecord(language)

\* Lines 192-237: the reply's text to the analysis.
Normalize(raw, language) ==
  Analysis(Loads(ExtractJson(StripFences(Strip(raw)))), language)

\* ------------------------------------------------------ the sqlite3 table

\* What sqlite3 binds as a parameter: None, int, float, str, and bool as the
\* int it is; a list or a dict raises.
Bindable(x) == x.t \in {"null", "bool", "int", "float", "str"}

BoundValue(x) == IF x.t = "bool" THEN PyInt(IF x.v THEN 1 ELSE 0) ELSE x

\* A column declared TEXT: a number is kept as its text.
TextAffinity(x) ==
  CASE x.t = "int" -> PyStr(<<TokOfInt(x.v)>>)
    [] x.t = "float" -> PyStr(<<x.v>>)
    [] OTHER -> x

\* A column declared INTEGER: a text that is an integer literal is kept as
\* that integer, a text that is a real literal as that real, any other text
\* and any real with a fraction as they are.
IntegerAffinity(x) ==
  IF x.t = "str" /\ Len(x.v) = 1 /\ x.v[1] \in IntTokens THEN PyInt(IntOf(x.v[1]))
  ELSE IF x.t = "str" /\ Len(x.v) = 1 /\ x.v[1] \in FloatTokens THEN PyFloat(x.v[1])
  ELSE x

\* Line 108: the digest stands for the content it was computed from.
calculate_file_hash(content) == <<"sha256">> \o content

\* Line 115: the lines of the code that hold more than whitespace.
LinesOfCode(code) ==
  LET lines == Split(code, NL)
  IN Cardinality({n \in 1..Len(lines) : Strip(lines[n]) /= <<>>})

ScoreKeys == {"readability_score", "modularity_score", "bug_risk_score"}

\* Lines 123-134: the parameters of the INSERT.
InsertParams(filename, file_hash, code, analysis) ==
  [filename |-> PyStr(filename),
   file_hash |-> PyStr(file_hash),
   language |-> DictGet(analysis, K("language"), PyNone),
   lines_of_code |-> PyInt(LinesOfCode(code)),
   review_summary |-> DictGet(analysis, K("review_summary"), PyNone),
   readability_score |-> DictGet(analysis, K("readability_score"), PyInt(0)),
   modularity_score |-> DictGet(analysis, K("modularity_score"), PyInt(0)),
   bug_risk_score |-> DictGet(analysis, K("bug_risk_score"), PyInt(0)),
   suggestions |-> PyStr(Dumps(DictGet(analysis, K("suggestions"), PyList(<<>>)))),
   issues |-> PyStr(Dumps(DictGet(analysis, K("issues"), PyList(<<>>))))]

\* CURRENT_TIMESTAMP at second ts, as the text sqlite keeps.
Timestamp(ts) == <<"1970-01-01", SP, "00:00:", ToString(ts)>>

TextColumns == {"filename", "file_hash", "language", "review_summary", "suggestions", "issues"}

\* Lines 37-52 and 117-134: the row the INSERT stores under id at time ts,
\* each parameter converted by its column's affinity.
StoredRow(id, ts, params) ==
  [c \in (DOMAIN params) \cup {"id", "created_at"} |->
     IF c = "id" THEN PyInt(id)
     ELSE IF c = "created_at" THEN PyStr(Timestamp(ts))
     ELSE IF c \in TextColumns THEN TextAffinity(BoundValue(params[c]))
     ELSE IntegerAffinity(BoundValue(params[c]))]

\* ---------------------------------------------------------- ReviewResponse

\* Lines 86-94: the dicts kept, the strings wrapped, anything else left out.
WrapStrings(kept) ==
  PyList([n \in 1..Len(kept) |->
            IF IsDict(kept[n]) THEN kept[n]
            ELSE PyDict(<< <<K("description"), kept[n]>> >>)])

\* Lines 81-94, for what json decoded.
NormalizeDecoded(decoded) ==
  IF ~decoded.ok THEN PyList(<<>>)
  ELSE IF ~IsList(decoded.val) THEN PyList(<<>>)
  ELSE WrapStrings(SelectSeq(decoded.val.v, LAMBDA item : IsDict(item) \/ IsStr(item)))

\* Lines 71-94: the validator of suggestions and issues.
parse_json_and_normalize(v) ==
  NormalizeDecoded(IF IsStr(v) THEN Loads(v.v) ELSE Scanned(v, 0))

\* A field declared int takes an int, a real without a fraction and a text
\* that spells an integer; a real of the model always has a fraction.  (A
\* column never reads back as a bool.)
ValidInt(x) ==
  \/ x.t = "int"
  \/ (x.t = "str" /\ Len(x.v) = 1 /\ x.v[1] \in IntTokens)

AsInt(x) == IF x.t = "int" THEN x ELSE PyInt(IntOf(x.v[1]))

ValidationError == [ok |-> FALSE, val |-> <<>>]

\* Lines 58-94: ReviewResponse(**data) for a row's data whose suggestions
\* and issues are already decoded; a field of the wrong type raises.
ReviewResponse(data) ==
  IF /\ ValidInt(data.id)
     /\ IsStr(data.filename)
     /\ data.language.t \in {"null", "str"}
     /\ ValidInt(data.lines_of_code)
     /\ IsStr(data.review_summary)
     /\ \A k \in ScoreKeys : ValidInt(data[k])
     /\ IsStr(data.created_at)
    THEN [ok |-> TRUE,
          val |-> [id |-> AsInt(data.id),
                   filename |-> data.filename,
                   language |-> data.language,
                   lines_of_code |-> AsInt(data.lines_of_code),
                   review_summary |-> data.review_summary,
                   readability_score |-> AsInt(data.readability_score),
                   modularity_score |-> AsInt(data.modularity_score),
                   bug_risk_score |-> AsInt(data.bug_risk_score),
                   suggestions |-> parse_json_and_normalize(data.suggestions),
                   issues |-> parse_json_and_normalize(data.issues),
                   created_at |-> data.created_at]]
    ELSE ValidationError

\* Lines 325-327 (and 306-308): the row as a dict, its two JSON columns
\* decoded.  Both hold what json.dumps wrote, which json.loads reads.
RowData(row) ==
  [c \in DOMAIN row |->
     IF c \in {"suggestions", "issues"} /\ IsStr(row[c]) THEN Loads(row[c].v).val
     ELSE row[c]]

\* ------------------------------------------------------------------ state

VARIABLES
  store,    \* the reviews table: id -> row
  seq,      \* sqlite_sequence: the largest id AUTOINCREMENT has given out
  now,      \* the clock CURRENT_TIMESTAMP reads, in seconds
  uploads,  \* the files under uploads/: records [id, filename, content]
  apiKey,   \* whether GOOGLE_API_KEY is set
  resp,     \* the response to the last request: [op, status, body], the
            \* body a record: the JSON object sent, an error's being its
            \* detail, the list of GET /reviews under the field reviews
  call,     \* what the last analysis request met: [llm, saved, disk]
  nin,      \* the last input of the normalization: [set, text, language]
  nout,     \* its result: [set, val]
  nfenced   \* the result for the same text in a fenced block: [set, val]

vars == <<store, seq, now, uploads, apiKey, resp, call, nin, nout, nfenced>>

NoResp == [op |-> "none", status |-> 0, body |-> [detail |-> ""]]
NoCall == [llm |-> "none", saved |-> FALSE, disk |-> "none"]
NoInput == [set |-> FALSE, text |-> <<>>, language |-> PyNone]
NoOutput == [set |-> FALSE, val |-> PyNone]

\* An exception that reaches the HTTP layer.
Raised(status, detail) == [ok |-> FALSE, status |-> status, detail |-> detail, val |-> <<>>]
Returned(val) == [ok |-> TRUE, status |-> 200, detail |-> "", val |-> val]

\* ------------------------------------------------------------ the handlers

\* The id a faulty INSERT OR REPLACE on file_hash writes under: that of the
\* row of the same code, when there is one.
ReplacedId(st, sq, params) ==
  IF \E i \in DOMAIN st : st[i].file_hash = params.file_hash
    THEN CHOOSE i \in DOMAIN st : st[i].file_hash = params.file_hash
    ELSE sq + 1

\* A faulty variant of Insert, which C9 must tell from it: a second review of
\* the same code takes the place of the first.
InsertOrReplace(st, sq, ts, params) ==
  IF \A c \in DOMAIN params : Bindable(params[c])
    THEN [ok |-> TRUE, review_id |-> ReplacedId(st, sq, params),
          seq |-> IF ReplacedId(st, sq, params) > sq THEN sq + 1 ELSE sq,
          store |-> [i \in (DOMAIN st) \cup {ReplacedId(st, sq, params)} |->
                       IF i = ReplacedId(st, sq, params)
                         THEN StoredRow(i, ts, params) ELSE st[i]]]
    ELSE [ok |-> FALSE, review_id |-> 0, seq |-> sq, store |-> st]

\* Lines 117-139: a parameter sqlite3 cannot bind raises before anything is
\* written; else the row gets the next id and is committed.
Insert(st, sq, ts, params) ==
  IF \A c \in DOMAIN params : Bindable(params[c])
    THEN [ok |-> TRUE, review_id |-> sq + 1, seq |-> sq + 1,
          store |-> [i \in (DOMAIN st) \cup {sq + 1} |->
                       IF i = sq + 1 THEN StoredRow(sq + 1, ts, params) ELSE st[i]]]
    ELSE [ok |-> FALSE, review_id |-> 0, seq |-> sq, store |-> st]

\* Lines 110-139.
save_review_to_db(st, sq, ts, filename, file_hash, code, analysis) ==
  Insert(st, sq, ts, InsertParams(filename, file_hash, code, analysis))

\* Lines 145-242, the reply being llm: [ok, text].  Without the key, and when
\* the call to the model raises, an HTTPException of status 500.
analyze_code_with_llm(key, language, llm) ==
  IF ~key THEN Raised(500, "GOOGLE_API_KEY not set")
  ELSE IF ~llm.ok THEN Raised(500, "Gemini analysis failed")
  ELSE Returned(Normalize(llm.text, language))

\* Line 329: the response, or the ValidationError.
Validated(r) == IF r.ok THEN Returned(r.val) ELSE Raised(500, "ValidationError")

\* Lines 314-329.
get_review(st, review_id) ==
  IF review_id \notin DOMAIN st THEN Raised(404, "Review not found")
  ELSE Validated(ReviewResponse(RowData(st[review_id])))

Response(op, r) ==
  [op |-> op, status |-> r.status, body |-> IF r.ok THEN r.val ELSE [detail |-> r.detail]]

\* An exception no handler catches: status 500.
Uncaught(r) == IF r.ok THEN r ELSE Raised(500, "Internal Server Error")

\* The record of the normalization a request ran (none, unless the model
\* answered).
RanNormalizer(language, llm, analysis) ==
  IF analysis.ok
    THEN /\ nin' = [set |-> TRUE, text |-> llm.text, language |-> language]
         /\ nout' = [set |-> TRUE, val |-> analysis.val]
    ELSE /\ nin' = NoInput
         /\ nout' = NoOutput

\* What the call to the model came to.
LlmCall(llm) == IF ~apiKey THEN "none" ELSE IF llm.ok THEN "returned" ELSE "raised"

\* Lines 292-293: the row is committed, then read back.
AnalyzeSaved(saved) ==
  IF ~saved.ok
    THEN /\ resp' = Response("analyze", Raised(500, "Internal Server Error"))
         /\ UNCHANGED <<store, seq>>
    ELSE /\ store' = saved.store
         /\ seq' = saved.seq
         /\ resp' = Response("analyze", Uncaught(get_review(saved.store, saved.review_id)))

\* Lines 291-293.
AnalyzeSteps(request, llm, analysis) ==
  /\ RanNormalizer(request.language, llm, analysis)
  /\ IF ~analysis.ok
       THEN /\ resp' = Response("analyze", analysis)
            /\ UNCHANGED <<store, seq>>
       ELSE AnalyzeSaved(save_review_to_db(store, seq, now, request.filename,
                                           calculate_file_hash(request.code),
                                           request.code, analysis.val))
  /\ call' = [llm |-> LlmCall(llm), saved |-> seq' /= seq, disk |-> "none"]
  /\ UNCHANGED <<now, uploads, apiKey, nfenced>>

\* Lines 287-293: POST /review/analyze.  Nothing is caught: whatever raises
\* ends the request with status 500, after what was done before it.
analyze_code(request, llm) ==
  AnalyzeSteps(request, llm, analyze_code_with_llm(apiKey, request.language, llm))

\* Line 261: the bytes that are no UTF-8 are left out.
Decode(content) == SelectSeq(content, LAMBDA b : b /= "<bad byte>")

\* Line 263: a final component's last dot and what follows it, in lower case.
Extensions == {".py", ".js", ".ts", ".java", ".cpp", ".c", ".go", ".rs", ".rb",
               ".php", ".swift", ".kt", ".txt", ".PY"}

Lower(tok) == IF tok = ".PY" THEN ".py" ELSE tok

Suffix(filename) ==
  IF Len(filename) > 1 /\ filename[Len(filename)] \in Extensions
    THEN Lower(filename[Len(filename)])
    ELSE ""

\* Lines 264-269.
LanguageOf(ext) ==
  CASE ext = ".py" -> "Python" [] ext = ".js" -> "JavaScript" [] ext = ".ts" -> "TypeScript"
    [] ext = ".java" -> "Java" [] ext = ".cpp" -> "C++" [] ext = ".c" -> "C"
    [] ext = ".go" -> "Go" [] ext = ".rs" -> "Rust" [] ext = ".rb" -> "Ruby"
    [] ext = ".php" -> "PHP" [] ext = ".swift" -> "Swift" [] ext = ".kt" -> "Kotlin"
    [] OTHER -> "Unknown"

\* Lines 279-285: the row read back; an exception is caught and raised again.
UploadResponse(r) ==
  IF r.ok THEN Response("upload", r)
  ELSE Response("upload", Raised(500, "Internal Error"))

\* Lines 273-279: the row is committed, then the copy is written, then the
\* row is read back.
UploadSaved(file, code, diskOk, saved) ==
  IF ~saved.ok
    THEN /\ resp' = UploadResponse(Raised(500, "Internal Error"))
         /\ UNCHANGED <<store, seq, uploads>>
    ELSE /\ store' = saved.store
         /\ seq' = saved.seq
         /\ IF ~diskOk
              THEN /\ resp' = UploadResponse(Raised(500, "Internal Error"))
                   /\ UNCHANGED uploads
              ELSE /\ uploads' = uploads \cup
                        {[id |-> saved.review_id, filename |-> file.filename,
                          content |-> code]}
                   /\ resp' = UploadResponse(get_review(saved.store, saved.review_id))

\* Lines 272-285.
UploadSteps(file, code, language, llm, diskOk, analysis) ==
  /\ RanNormalizer(language, llm, analysis)
  /\ IF ~analysis.ok
       THEN /\ resp' = UploadResponse(analysis)
            /\ UNCHANGED <<store, seq, uploads>>
       ELSE UploadSaved(file, code, diskOk,
                        save_review_to_db(store, seq, now, file.filename,
                                          calculate_file_hash(code), code, analysis.val))
  /\ call' = [llm |-> LlmCall(llm), saved |-> seq' /= seq,
              disk |-> IF seq' = seq THEN "none" ELSE IF diskOk THEN "written" ELSE "failed"]
  /\ UNCHANGED <<now, apiKey, nfenced>>

\* Lines 260-272.
UploadDecoded(file, code, language, llm, diskOk) ==
  UploadSteps(file, code, language, llm, diskOk, analyze_code_with_llm(apiKey, language, llm))

\* Lines 256-285: POST /review/upload.  Every exception is caught and raised
\* again as status 500.
upload_and_review(file, llm, diskOk) ==
  UploadDecoded(file, Decode(file.content), S(LanguageOf(Suffix(file.filename))), llm, diskOk)

\* The second a row's created_at names.
CreatedAt(row) == CHOOSE ts \in 0..now : Timestamp(ts) = row.created_at.v

\* Lines 304-311: a row ReviewResponse refuses fails the whole request.
ListResponse(results) ==
  IF \A n \in 1..Len(results) : results[n].ok
    THEN [op |-> "list", status |-> 200,
          body |-> [reviews |-> [n \in 1..Len(results) |-> results[n].val]]]
    ELSE Response("list", Raised(500, "Internal Server Error"))

\* LIMIT limit OFFSET offset of the rows in the order given.
Page(order, limit, offset) ==
  SubSeq(order, offset + 1, IF offset + limit < Len(order) THEN offset + limit ELSE Len(order))

ListRows(rows) ==
  ListResponse([n \in 1..Len(rows) |-> ReviewResponse(RowData(store[rows[n]]))])

\* Lines 295-311: GET /reviews, order being the ids as the SELECT yields
\* them: newest first, rows of one second in an order SQL does not fix.
list_reviews(limit, offset, order) ==
  /\ Len(order) = Cardinality(DOMAIN store)
  /\ {order[n] : n \in 1..Len(order)} = DOMAIN store
  /\ \A m, n \in 1..Len(order) :
       m < n => CreatedAt(store[order[m]]) >= CreatedAt(store[order[n]])
  /\ resp' = ListRows(Page(order, limit, offset))
  /\ UNCHANGED <<store, seq, now, uploads, apiKey, call, nin, nout, nfenced>>

\* A ValidationError is caught by no handler; the 404 is the answer.
GetResponse(r) ==
  Response("get", IF r.ok \/ r.status = 404 THEN r ELSE Raised(500, "Internal Server Error"))

\* Lines 313-329 as an endpoint: GET /reviews/{review_id}.
get_review_endpoint(review_id) ==
  /\ resp' = GetResponse(get_review(store, review_id))
  /\ UNCHANGED <<store, seq, now, uploads, apiKey, call, nin, nout, nfenced>>

FloatTenths(tok) == CASE tok = "7.5" -> 75

\* What AVG adds up for a value, in tenths: a number as it is, a text that
\* is no number as 0.
Tenths(x) ==
  CASE x.t = "int" -> 10 * x.v
    [] x.t = "float" -> FloatTenths(x.v)
    [] OTHER -> 0

RECURSIVE SumTenths(_, _)
SumTenths(ids, column) ==
  IF ids = {} THEN 0
  ELSE LET i == CHOOSE i \in ids : TRUE
       IN Tenths(store[i][column]) + SumTenths(ids \ {i}, column)

\* total / n in tenths, rounded to the nearest tenth, a tie to the even one.
RoundedTenths(total, n) ==
  IF 2 * (total % n) > n \/ (2 * (total % n) = n /\ (total \div n) % 2 = 1)
    THEN (total \div n) + 1
    ELSE total \div n

AverageOf(ids, column) ==
  IF ids = {} THEN 0 ELSE RoundedTenths(SumTenths(ids, column), Cardinality(ids))

\* Line 338: round(AVG(column) or 0, 1), in tenths; AVG leaves NULL out.
AverageTenths(column) ==
  AverageOf({i \in DOMAIN store : store[i][column].t /= "null"}, column)

\* Lines 331-346: GET /stats.
get_stats ==
  /\ resp' = [op |-> "stats", status |-> 200,
              body |-> [total_reviews |-> Cardinality(DOMAIN store),
                        average_scores |->
                          [readability |-> AverageTenths("readability_score"),
                           modularity |-> AverageTenths("modularity_score"),
                           bug_risk |-> AverageTenths("bug_risk_score")],
                        languages |->
                          [l \in {store[i].language : i \in DOMAIN store} |->
                             Cardinality({i \in DOMAIN store : store[i].language = l})]]]
  /\ UNCHANGED <<store, seq, now, uploads, apiKey, call, nin, nout, nfenced>>

\* Lines 243-254: GET /.
read_root ==
  /\ resp' = [op |-> "root", status |-> 200, body |-> [message |-> "Code Review Assistant API", version |-> "1.0.0"]]
  /\ UNCHANGED <<store, seq, now, uploads, apiKey, call, nin, nout, nfenced>>

\* ----------------------------------------------------------------- inputs

MaxItems == 2
MaxGarbageLen == 3
MaxReviews == 2
MaxClock == 1

\* A field the reply leaves out.
Absent == [t |-> "absent", v |-> <<>>]

\* The dict of the fields that are not left out, in the order given.
MkPayload(fields) ==
  PyDict(SelectSeq(fields, LAMBDA kv : kv[2] /= Absent))

SeqsUpTo(S0, n) == UNION {[1..m -> S0] : m \in 0..n}

Fenced(p) == <<BT, "json", NL>> \o p \o <<NL, BT>>

Modes == {"plain", "fenced", "fenced no tag", "fence on one line", "prose", "truncated"}

Wrap(mode, p) ==
  CASE mode = "plain" -> p
    [] mode = "fenced" -> Fenced(p)
    [] mode = "fenced no tag" -> <<SP, BT, NL>> \o p \o <<NL, BT, NL>>
    [] mode = "fence on one line" -> <<BT, "json">> \o p \o <<BT>>
    [] mode = "prose" -> <<"Here", SP, "it", SP, "is", ":", NL>> \o p \o <<NL, "Done.">>
    [] mode = "truncated" -> SubSeq(p, 1, Len(p) - 1)

\* What a list of the reply may hold.
Items ==
  {S("foo"), PyStr(<<"use", SP, BT, "json">>),
   PyDict(<< <<K("description"), S("d")>>, <<K("line"), PyInt(10)>> >>),
   PyInt(7), PyNone, PyBool(TRUE), PyList(<<S("a"), PyInt(1)>>)}

ListOpts == {Absent, S("none")} \cup {PyList(l) : l \in SeqsUpTo(Items, MaxItems)}
FewListOpts == {Absent, PyList(<<S("x")>>),
                PyList(<<PyInt(3), PyDict(<< <<K("severity"), S("low")>> >>)>>)}

ScoreOpts == {Absent, PyInt(7), PyInt(99), PyInt(0 - 3), S("high"), S("7"), PyFloat("7.5"), PyNone}
SummaryOpts == {Absent, S("ok"), PyStr(<<"use", SP, BT, "json", SP, "fences">>)}

FullPayload(summary, r, m, lang, sugg, iss) ==
  MkPayload(<< <<K("language"), lang>>, <<K("review_summary"), summary>>,
               <<K("readability_score"), r>>, <<K("modularity_score"), m>>,
               <<K("bug_risk_score"), m>>,
               <<K("suggestions"), sugg>>, <<K("issues"), iss>> >>)

\* Replies that vary the lists, and replies that vary the other fields.
ListPayloads ==
  {FullPayload(S("ok"), PyInt(7), PyInt(3), S("Go"), a, b) : a \in ListOpts, b \in FewListOpts}
  \cup {FullPayload(S("ok"), PyInt(7), PyInt(3), S("Go"), b, a) : a \in ListOpts, b \in FewListOpts}

ScalarPayloads ==
  {FullPayload(s, r, m, l, Absent, PyList(<<S("x")>>)) :
     s \in SummaryOpts, r \in ScoreOpts, m \in {Absent, PyInt(3)}, l \in {Absent, S("Go")}}

GarbageAlphabet == {"{", "}", Q, "x", BT, NL}

\* Every text of at most MaxGarbageLen tokens: the empty reply, prose, braces
\* in any order, pieces of JSON.
Garbage == SeqsUpTo(GarbageAlphabet, MaxGarbageLen)

NotJsonAtAll == <<"not", SP, "json", SP, "at", SP, "all">>

\* The language a caller passes: none, the empty string, a name.
Hints == {PyNone, PyStr(<<>>), S("Python")}

\* The inputs of the normalization: the replies that vary the lists, plain
\* and fenced; the replies that vary the other fields, in every wrapping;
\* and the texts that may end in the fallback, with a hint and without, prose
\* and the replies cut short also with the empty hint.
NormInputs ==
  {[text |-> Wrap(m, Dumps(p)), language |-> PyNone] :
     m \in {"plain", "fenced"}, p \in ListPayloads}
  \cup {[text |-> Wrap(m, Dumps(p)), language |-> PyNone] : m \in Modes, p \in ScalarPayloads}
  \cup {[text |-> t, language |-> h] : t \in Garbage, h \in {PyNone, S("Python")}}
  \cup {[text |-> t, language |-> h] :
          t \in {NotJsonAtAll} \cup {Wrap("truncated", Dumps(p)) : p \in ScalarPayloads},
          h \in Hints}

\* --------------------------------------- the normalization on its own

InitSystem ==
  /\ store = <<>>
  /\ seq = 0
  /\ now = 0
  /\ uploads = {}
  /\ resp = NoResp
  /\ call = NoCall

InitNorm ==
  /\ InitSystem
  /\ apiKey = TRUE
  /\ \E i \in NormInputs : nin = [set |-> TRUE, text |-> i.text, language |-> i.language]
  /\ nout = NoOutput
  /\ nfenced = NoOutput

\* The reply is a JSON object and nothing else.
IsObjectText(t) == Loads(t).ok /\ IsDict(Loads(t).val)

NormalizeReply ==
  /\ ~nout.set
  /\ nout' = [set |-> TRUE, val |-> Normalize(nin.text, nin.language)]
  /\ UNCHANGED <<store, seq, now, uploads, apiKey, resp, call, nin, nfenced>>

NormalizeFenced ==
  /\ nout.set
  /\ ~nfenced.set
  /\ IsObjectText(nin.text)
  /\ nfenced' = [set |-> TRUE, val |-> Normalize(Fenced(nin.text), nin.language)]
  /\ UNCHANGED <<store, seq, now, uploads, apiKey, resp, call, nin, nout>>

NextNorm == NormalizeReply \/ NormalizeFenced

SpecNorm == InitNorm /\ [][NextNorm]_vars

\* ------------------------------------------------------------ the service

GoodPayload ==
  FullPayload(S("ok"), PyInt(7), PyInt(3), S("Go"),
              PyList(<<PyDict(<< <<K("type"), S("improvement")>>,
                                 <<K("description"), S("d")>>, <<K("line"), PyInt(10)>> >>),
                       S("foo")>>),
              PyList(<<S("x")>>))

\* What the model may answer in the service's runs: a reply as asked for,
\* the same cut short, without its summary, without its scores, with a score
\* out of range, with a score in words, with a language that is no text; and
\* prose.
ServicePayloads ==
  {GoodPayload,
   FullPayload(Absent, PyInt(7), PyInt(3), S("Go"), Absent, Absent),
   FullPayload(S("ok"), Absent, Absent, Absent, PyList(<<PyInt(7)>>), Absent),
   FullPayload(S("ok"), PyInt(99), PyInt(3), S("Go"), Absent, Absent),
   FullPayload(S("ok"), S("high"), PyInt(3), S("Go"), Absent, Absent),
   FullPayload(S("ok"), PyInt(7), PyInt(3), PyList(<<S("Go")>>), Absent, Absent)}

Replies ==
  {Dumps(p) : p \in ServicePayloads}
  \cup {Wrap("truncated", Dumps(GoodPayload)), NotJsonAtAll}

\* What the call to the model ends in: it raises, or it returns a text.
LlmOutcomes == {[ok |-> FALSE, text |-> <<>>]} \cup {[ok |-> TRUE, text |-> t] : t \in Replies}

AnalyzeRequests ==
  {[code |-> <<"print(1)", NL, NL, "print(2)", NL>>, filename |-> <<"a", ".py">>,
    language |-> PyNone]}

UploadFiles ==
  {[filename |-> <<"A", ".PY">>, content |-> <<"print(1)", "<bad byte>", NL, SP, NL>>]}

Init ==
  /\ InitSystem
  /\ apiKey \in BOOLEAN
  /\ nin = NoInput
  /\ nout = NoOutput
  /\ nfenced = NoOutput

\* The clock moves on.
Tick ==
  /\ now < MaxClock
  /\ now' = now + 1
  /\ UNCHANGED <<store, seq, uploads, apiKey, resp, call, nin, nout, nfenced>>

PostAnalyzeWith(outcomes) ==
  /\ seq < MaxReviews
  /\ \E request \in AnalyzeRequests, llm \in outcomes : analyze_code(request, llm)

PostUploadWith(outcomes) ==
  /\ seq < MaxReviews
  /\ \E file \in UploadFiles, llm \in outcomes, diskOk \in BOOLEAN :
       upload_and_review(file, llm, diskOk)

PostAnalyze == PostAnalyzeWith(LlmOutcomes)

PostUpload == PostUploadWith(LlmOutcomes)

\* The default page, and the second row alone.
Pages == {[limit |-> 50, offset |-> 0], [limit |-> 1, offset |-> 1]}

GetReviews ==
  \E page \in Pages, order \in [1..Cardinality(DOMAIN store) -> DOMAIN store] :
    list_reviews(page.limit, page.offset, order)

GetReview == \E review_id \in 1..(MaxReviews + 1) : get_review_endpoint(review_id)

Next == Tick \/ PostAnalyze \/ PostUpload \/ GetReviews \/ GetReview \/ get_stats \/ read_root

Spec == Init /\ [][Next]_vars

\* ------------------------------- the service within one second of the clock

\* The outcomes that tell the requests' paths apart: the model raises; its
\* reply is as asked for (stored and returned); is prose (stored, then
\* refused on the way back); holds a language that is no text (not stored).
FewOutcomes ==
  {[ok |-> FALSE, text |-> <<>>],
   [ok |-> TRUE, text |-> Dumps(GoodPayload)],
   [ok |-> TRUE, text |-> NotJsonAtAll],
   [ok |-> TRUE,
    text |-> Dumps(FullPayload(S("ok"), PyInt(7), PyInt(3), PyList(<<S("Go")>>), Absent, Absent))]}

PostAnalyzeFew == PostAnalyzeWith(FewOutcomes)

PostUploadFew == PostUploadWith(FewOutcomes)

NextStore ==
  PostAnalyzeFew \/ PostUploadFew \/ GetReviews \/ GetReview \/ get_stats \/ read_root

SpecStore == Init /\ [][NextStore]_vars

\* ------------------------------------------------- the normalization's claims

\* C1: for every reply text the normalization returns a mapping in which the
\* three scores are present and suggestions and issues are present and are
\* lists.
C1_ScoresAndListsPresent ==
  nout.set =>
    /\ IsDict(nout.val)
    /\ \A k \in ScoreKeys : DictHas(nout.val, K(k))
    /\ \A k \in {"suggestions", "issues"} :
         DictHas(nout.val, K(k)) /\ IsList(DictItem(nout.val, K(k)))

\* C2: for every reply text that holds no "{" at all, or whose slice from the
\* first "{" to the last "}" json cannot decode, the result is the fallback
\* record: the sentinel summary, the three scores 5, suggestions and issues
\* empty, and the language the caller's hint, or "Unknown" without one.
C2_UnparseableGivesFallback ==
  LET text == StripFences(Strip(nin.text))
  IN (nout.set /\ (Find(text, "{") = 0 - 1 \/ ~Loads(ExtractJson(text)).ok)) =>
       /\ IsDict(nout.val)
       /\ Keys(nout.val) = {K("language"), K("review_summary"), K("suggestions"), K("issues")}
                             \cup {K(k) : k \in ScoreKeys}
       /\ DictItem(nout.val, K("review_summary"))
            = PyStr(<<"Could", SP, "not", SP, "parse", SP, "Gemini", SP, "output.">>)
       /\ \A k \in ScoreKeys : DictItem(nout.val, K(k)) = PyInt(5)
       /\ DictItem(nout.val, K("suggestions")) = PyList(<<>>)
       /\ DictItem(nout.val, K("issues")) = PyList(<<>>)
       /\ DictItem(nout.val, K("language"))
            = IF IsStr(nin.language) /\ nin.language.v /= <<>>
                THEN nin.language ELSE S("Unknown")

\* The list a decoded reply holds under key, and the list the result holds.
ListIn(parsed, key) == DictItem(parsed.val, K(key)).v
ListOut(key) == DictItem(nout.val, K(key)).v

HasList(parsed, key) ==
  parsed.ok /\ DictHas(parsed.val, K(key)) /\ IsList(DictItem(parsed.val, K(key)))

\* C4: when the reply decodes to an object whose suggestions (or issues) is a
\* list of strings and mappings, the result's list has as many entries, in
\* the same order: entry k of a string is a mapping whose description is that
\* string (an issue's severity being "medium" as well), entry k of a mapping
\* is that mapping unchanged.
C4_StringsWrappedInOrder ==
  LET parsed == Loads(ExtractJson(StripFences(Strip(nin.text))))
  IN nout.set =>
       \A key \in {"suggestions", "issues"} :
         (/\ HasList(parsed, key)
          /\ \A n \in 1..Len(ListIn(parsed, key)) :
               IsStr(ListIn(parsed, key)[n]) \/ IsDict(ListIn(parsed, key)[n])) =>
           /\ Len(ListOut(key)) = Len(ListIn(parsed, key))
           /\ \A n \in 1..Len(ListIn(parsed, key)) :
                IF IsDict(ListIn(parsed, key)[n])
                  THEN ListOut(key)[n] = ListIn(parsed, key)[n]
                  ELSE /\ IsDict(ListOut(key)[n])
                       /\ DictHas(ListOut(key)[n], K("description"))
                       /\ DictItem(ListOut(key)[n], K("description")) = ListIn(parsed, key)[n]
                       /\ key = "issues" =>
                            /\ DictHas(ListOut(key)[n], K("severity"))
                            /\ DictItem(ListOut(key)[n], K("severity")) = S("medium")

\* C4's case: the issues ["foo", {description: d, line: 10}] and the
\* suggestions ["x"] came out as three mappings, the string "foo" first.
C4_Witness ==
  LET kept == PyDict(<< <<K("description"), S("d")>>, <<K("line"), PyInt(10)>> >>)
  IN /\ nout.set
     /\ nin.text = Dumps(FullPayload(S("ok"), PyInt(7), PyInt(3), S("Go"),
                                     PyList(<<S("x")>>), PyList(<<S("foo"), kept>>)))
     /\ ListOut("issues")
          = << PyDict(<< <<K("severity"), S("medium")>>, <<K("description"), S("foo")>> >>),
               kept >>
     /\ ListOut("suggestions")
          = << PyDict(<< <<K("type"), S("general")>>, <<K("description"), S("x")>> >>) >>

\* C5, as the specification states it: an element that is neither a mapping
\* nor a string is left out, so that the result's list is the mappings and
\* the wrapped strings of the reply's list, in their order.
C5_OthersDropped ==
  LET parsed == Loads(ExtractJson(StripFences(Strip(nin.text))))
      Kept(key) == SelectSeq(ListIn(parsed, key), LAMBDA x : IsStr(x) \/ IsDict(x))
  IN nout.set =>
       \A key \in {"suggestions", "issues"} :
         HasList(parsed, key) =>
           /\ Len(ListOut(key)) = Len(Kept(key))
           /\ \A n \in 1..Len(Kept(key)) :
                IF IsDict(Kept(key)[n])
                  THEN ListOut(key)[n] = Kept(key)[n]
                  ELSE /\ IsDict(ListOut(key)[n])
                       /\ DictHas(ListOut(key)[n], K("description"))
                       /\ DictItem(ListOut(key)[n], K("description")) = Kept(key)[n]

\* What a wrapped element is tagged with: a suggestion's type, an issue's
\* severity.
TagOf(key) ==
  IF key = "issues" THEN <<K("severity"), S("medium")>> ELSE <<K("type"), S("general")>>

\* C5, as the code has it: no element is left out.  An element that is
\* neither a mapping nor a string is wrapped at its position like a string,
\* its description being the text str() gives it; the result's list is as
\* long as the reply's.
C5_OthersWrapped ==
  LET parsed == Loads(ExtractJson(StripFences(Strip(nin.text))))
  IN nout.set =>
       \A key \in {"suggestions", "issues"} :
         HasList(parsed, key) =>
           /\ Len(ListOut(key)) = Len(ListIn(parsed, key))
           /\ \A n \in 1..Len(ListIn(parsed, key)) :
                (~IsDict(ListIn(parsed, key)[n]) /\ ~IsStr(ListIn(parsed, key)[n])) =>
                  ListOut(key)[n]
                    = PyDict(<< TagOf(key),
                                <<K("description"), PyStr(StrOf(ListIn(parsed, key)[n]))>> >>)

\* C5's case: the suggestions [7, null] came out as two mappings whose
\* descriptions are "7" and "None".
C5_Witness ==
  LET parsed == Loads(ExtractJson(StripFences(Strip(nin.text))))
  IN /\ nout.set
     /\ HasList(parsed, "suggestions")
     /\ ListIn(parsed, "suggestions") = <<PyInt(7), PyNone>>
     /\ ListOut("suggestions")
          = << PyDict(<< <<K("type"), S("general")>>, <<K("description"), S("7")>> >>),
               PyDict(<< <<K("type"), S("general")>>, <<K("description"), S("None")>> >>) >>

\* C6: a JSON object in a fenced block with a language tag line normalizes to
\* what the same object normalizes to without the fence, whatever its
\* strings hold.
C6_FenceTransparent == nfenced.set => nfenced.val = nout.val

\* ------------------------------------------------------ the service's claims

\* The fields of an analysis that a response carries.
AnalysisFields == {"language", "review_summary", "suggestions", "issues"} \cup ScoreKeys

\* The last request was an analysis request whose call to the model returned
\* a text, and whose copy on disk (an upload's) was written.
ModelAnswered ==
  resp.op \in {"analyze", "upload"} /\ call.llm = "returned" /\ call.disk /= "failed"

\* C3: an analysis request whose call to the model returned a text, whatever
\* the text, is answered with status 200 and a complete response: a string
\* summary, three integer scores, suggestions and issues lists.
C3_ModelTextNeverFails ==
  ModelAnswered =>
    /\ resp.status = 200
    /\ IsStr(resp.body.review_summary)
    /\ \A k \in ScoreKeys : resp.body[k].t = "int"
    /\ IsList(resp.body.suggestions) /\ IsList(resp.body.issues)

\* C7: what get_review returns for the id save_review_to_db returned equals,
\* field for field, the analysis the normalization returned and that was
\* saved.
C7_StoreRoundTrip ==
  (ModelAnswered /\ nout.set) =>
    /\ resp.status = 200
    /\ \A f \in AnalysisFields :
         DictHas(nout.val, K(f)) /\ resp.body[f] = DictItem(nout.val, K(f))

\* C8: every stored record's three scores are integers from 0 to 10.
C8_StoredScoresInRange ==
  \A i \in DOMAIN store : \A k \in ScoreKeys :
    store[i][k].t = "int" /\ store[i][k].v >= 0 /\ store[i][k].v <= 10

\* C9: no step changes or removes a stored record, and a step that inserts
\* gives the new record an id above every id stored before.
C9_RecordsImmutable ==
  [][\A i \in DOMAIN store :
       /\ i \in DOMAIN store'
       /\ store'[i] = store[i]
       /\ \A j \in (DOMAIN store') \ (DOMAIN store) : j > i]_vars

\* C9's case: a record inserted under id 1, another, of another reply,
\* inserted under id 2, and the first then read back as it was stored.
C9_Witness ==
  /\ DOMAIN store = {1, 2}
  /\ store[2].review_summary /= store[1].review_summary
  /\ resp.op = "get"
  /\ resp.status = 200
  /\ resp.body.id = store[1].id
  /\ resp.body.review_summary = store[1].review_summary

\* C10: a step that changes the store is a request answered with status 200:
\* an analysis request answered with an error leaves the records as they
\* were.
C10_ErrorLeavesStore == [][store' /= store => resp'.status = 200]_vars

====
